---------------------------- MODULE Spec2Model ----------------------------
(***************************************************************************)
(* Model of runLK009.py, the LK009 pulsar scheduler: target admission,     *)
(* beam assignment, free/busy window partition, SDF submission and the     *)
(* placement of station maintenance commands.                              *)
(*                                                                         *)
(* Times are whole seconds counted from 00:00:00 of MJD 0 of the model, so *)
(* that the MJD of a time is t \div 86400 and its hour is                  *)
(* (t % 86400) \div 3600.  Durations are whole, even numbers of seconds    *)
(* (the catalog stores tenths of an hour), so that duration/2.0 is exact.  *)
(***************************************************************************)
EXTENDS Integers, Sequences, FiniteSets, TLC

Minutes(n) == n * 60
Hours(n) == n * 3600
Day(n) == n * 86400

\* lsl.common.mcs.datetime_to_mjdmpm(t)[0]: the integer MJD of a time.
dt2mjd(t) == t \div 86400

\* Largest number of lines of the catalog file.
MaxTargets == 3

\* Pulsar._padding: total session padding time in seconds.
padding == 10

(***************************************************************************)
(* Inputs.  A run is given the window (command line), the recording space  *)
(* (get_available_space) and the catalog; the answer of the ephemeris for  *)
(* a target (next transit after the start of the window, or NeverUp) is    *)
(* part of the target's record: transit is the offset, in seconds, of the  *)
(* next transit from the adjusted start of the window.                     *)
(***************************************************************************)
\* orig_start: 07:30:00 of day 3, and 23:40:30 of day 3 (the adjusted start,
\* 25 minutes later, is then on day 4 and not on a whole minute).
MorningStart == Day(3) + Hours(7) + Minutes(30)

NightStart == Day(3) + Hours(23) + Minutes(40) + 30

OrigStarts == {MorningStart, NightStart}

\* Lengths of the window given on the command line.
WindowLengths == {Hours(5)}

\* The windows of the runs of SpecDay: one start, and a length of 30 minutes
\* (5 minutes are left after the adjustment of the start), of 19 h 52 min or
\* of 20 h 45 min (L of the night run can then be admitted).
DayStarts == {NightStart}

DayLengths == {Minutes(30), Hours(19) + Minutes(52), Hours(20) + Minutes(45)}

\* Seconds of dual-beam recording that fit in the free space.
Capacities == {Hours(1) + Minutes(30), Hours(10)}

Target(n, dur, cad, last, tr, isup) ==
    [name |-> n, duration |-> dur, cadence |-> cad, last_mjd |-> last,
     transit |-> tr, up |-> isup]

\* The transits of A, T, C, D and L, as offsets from the adjusted start, for
\* the catalog of the run with window start t0.
\*   morning run
\*   A  1 h about transit +1:00:00        -> [0:30:00, 1:30:00]
\*   T  0.5 h about transit +1:45:05      -> [1:30:05, 2:00:05], 5 s after A
\*   C  0.5 h about transit +2:30:00      -> [2:15:00, 2:45:00], 45 min after A
\*   D  0.5 h about transit +4:00:00      -> [3:45:00, 4:15:00]
\*   L  0.5 h about transit +4:26:40      -> stops after a 5-hour window
\*   night run
\*   A  1 h about transit +1:10:00        -> [0:40:00, 1:40:00]
\*   C  0.5 h about transit +2:25:00      -> [2:10:00, 2:40:00]
\*   T  0.5 h about transit +2:44:00      -> [2:29:00, 2:59:00]
\*   D  0.5 h about transit +3:55:00      -> [3:40:00, 4:10:00]
\*   L  0.5 h about transit +20:01:30     -> [19:46:30, 20:16:30], after a
\*                                           5-hour window
Transits(t0) ==
    IF t0 = MorningStart
    THEN [A |-> Minutes(60), T |-> Minutes(105) + 5, C |-> Minutes(150),
          D |-> Minutes(240), L |-> 16000]
    ELSE [A |-> Minutes(70), T |-> Minutes(164), C |-> Minutes(145),
          D |-> Minutes(235), L |-> Hours(20) + Minutes(1) + 30]

\* The catalog lines the run with window start t0 may find; d is the day of
\* t0.  The other targets are the same for both runs:
\*   B  0.5 h about transit +1:26:40      -> [1:11:40, 1:41:40], overlaps A
\*   E  1 h about transit +0:10:00        -> starts before the window
\*   N  never up
Pool(t0) ==
    LET d == dt2mjd(t0)
        tr == Transits(t0)
    IN  {Target("A", Hours(1), 1, last, tr.A, TRUE) : last \in {d - 2, d}}
        \cup {Target("C", Minutes(30), cad, d - 1, tr.C, TRUE) : cad \in {0, 1}}
        \cup {Target("B", Minutes(30), 1, d - 2, 5200, TRUE),
              Target("T", Minutes(30), 1, d - 1, tr.T, TRUE),
              Target("D", Minutes(30), 1, d - 1, tr.D, TRUE),
              Target("E", Hours(1), 1, d - 1, Minutes(10), TRUE),
              Target("L", Minutes(30), 1, d - 1, tr.L, TRUE),
              Target("N", Minutes(30), 1, d - 1, Minutes(60), FALSE)}

\* The names of the targets of the pool.
Names == {"A", "B", "C", "D", "E", "L", "N", "T"}

\* The names of the targets in the catalogs of the runs of SpecDay.
DayNames == {"A", "B", "C", "D", "L", "N"}

\* Catalogs: lists of at most MaxTargets lines of the pool with distinct
\* names (addPulsar.py refuses a name that is already in the catalog), the
\* names taken from names.
Catalogs(t0, names) ==
    {c \in UNION {[1..n -> {x \in Pool(t0) : x.name \in names}] :
                      n \in 0..MaxTargets} :
        \A i, j \in DOMAIN c : i # j => c[i].name # c[j].name}

VARIABLES
    pc,                 \* position in main()
    orig_start,         \* window start as given
    start,              \* window start adjusted to allow for an INI
    stop,               \* window stop
    rec_secs_initial,   \* what get_available_space() returned
    rec_secs_possible,  \* remaining recording budget
    rec_secs_allocated, \* recording time given to admitted targets
    lines,              \* the lines of the catalog file, as read
    bdys,               \* the catalog, in processing order once sorted
    idx,                \* index in bdys of the candidate being processed
    verdicts,           \* history: the decision taken for each candidate
    bdys_run,           \* admitted targets
    bidx,               \* index in bdys_run of the next target to get beams
    load,               \* per-beam cumulative load
    freeWindows,        \* free periods, a list of <<start, stop>>
    busyWindows,        \* busy periods, a list of <<start, stop>>
    dry_run,            \* args.dry_run
    session_id,         \* next session ID
    filenames,          \* SDF files written for submission
    success,            \* what schedule_sdfs returned ("not_called" before)
    sdf_dir_made,       \* the date directory was created by this run
    state_file,         \* what this run wrote to the 'state' file (<<>>: nothing)
    catalog_file,       \* what this run wrote to the catalog (<<>>: nothing)
    atCommands,         \* commands built, a list of [t, cmd]
    fidx,               \* index in freeWindows of the next window to fill
    placed,             \* history: what each free window met and was given
    tTBWLast,           \* time of the last health check
    tDRSULast,          \* time of the last DRSU selection
    tLWADBLast,         \* time of the last DRSU scan
    at_jobs,            \* commands handed to schedule_at_command
    log_file,           \* what this run appended to runtime.log (<<>>: nothing)
    exit_status,        \* -1 while running, else the exit status
    dry_plan            \* history: what a dry run before this run computed

vars == <<pc, orig_start, start, stop, rec_secs_initial, rec_secs_possible,
          rec_secs_allocated, lines, bdys, idx, verdicts, bdys_run, bidx, load,
          freeWindows, busyWindows, dry_run, session_id, filenames, success,
          sdf_dir_made, state_file, catalog_file, atCommands, fidx, placed,
          tTBWLast, tDRSULast, tLWADBLast, at_jobs, log_file, exit_status,
          dry_plan>>

\* The variables of the admission loop and of the beam assignment.
admission == <<rec_secs_possible, rec_secs_allocated, bdys, idx, verdicts,
               bdys_run, bidx, load>>

\* The inputs of the run, never assigned by main(), and the history of the
\* run before it.
inputs == <<orig_start, start, stop, rec_secs_initial, lines, dry_run,
            dry_plan>>

\* The variables of the submission and of the command placement.
emission == <<session_id, filenames, success, sdf_dir_made, state_file, catalog_file,
              atCommands, fidx, placed, tTBWLast, tDRSULast, tLWADBLast, at_jobs,
              log_file, exit_status>>

Beams == {2, 3, 4}

(***************************************************************************)
(* Pulsar methods                                                          *)
(***************************************************************************)
\* Pulsar.get_start_stop for a target that is up: the interval centred on
\* the transit, widened by half the padding on each side when asked.
get_start_stop(bdy, t0, padded) ==
    LET bdy_transit == t0 + bdy.transit
        bdy_start == bdy_transit - bdy.duration \div 2
        bdy_stop == bdy_transit + bdy.duration \div 2
    IN  IF padded
        THEN <<bdy_start - padding \div 2, bdy_stop + padding \div 2>>
        ELSE <<bdy_start, bdy_stop>>

\* can_run without the test against the end of the window.
can_run_NoStopTest(bdy, t0, t1) ==
    /\ bdy.up
    /\ get_start_stop(bdy, t0, TRUE)[1] >= t0

\* Pulsar.can_run: the padded interval lies in [t0, t1]; NeverUp is caught.
can_run(bdy, t0, t1) ==
    /\ bdy.up
    /\ get_start_stop(bdy, t0, TRUE)[1] >= t0
    /\ get_start_stop(bdy, t0, TRUE)[2] <= t1

\* should_run without the test of a positive cadence.
should_run_NoCadenceTest(bdy, t0) ==
    dt2mjd(t0) >= bdy.last_mjd + bdy.cadence

\* Pulsar.should_run: the cadence has elapsed at the MJD of t0.
should_run(bdy, t0) ==
    dt2mjd(t0) >= bdy.last_mjd + bdy.cadence /\ bdy.cadence > 0

(***************************************************************************)
(* Sorting                                                                 *)
(***************************************************************************)
\* The insertion that puts p before the items of equal key.
RECURSIVE InsertByKey_BeforeEqual(_, _)
InsertByKey_BeforeEqual(s, p) ==
    IF s = <<>> THEN <<p>>
    ELSE IF p[1] <= Head(s)[1] THEN <<p>> \o s
    ELSE <<Head(s)>> \o InsertByKey_BeforeEqual(Tail(s), p)

\* list.sort(key=...) on a list of <<key, item>> pairs.  The sort is stable:
\* a pair is inserted after every pair whose key is not greater.
RECURSIVE InsertByKey(_, _)
InsertByKey(s, p) ==
    IF s = <<>> THEN <<p>>
    ELSE IF p[1] < Head(s)[1] THEN <<p>> \o s
    ELSE <<Head(s)>> \o InsertByKey(Tail(s), p)

RECURSIVE SortByKey(_)
SortByKey(s) ==
    IF s = <<>> THEN <<>>
    ELSE InsertByKey(SortByKey(SubSeq(s, 1, Len(s) - 1)), s[Len(s)])

\* The items of a sorted list of <<key, item>> pairs.
Items(s) == [i \in DOMAIN s |-> s[i][2]]

\* The state when main() is entered for a window that starts at one of
\* starts and has one of lengths, with a catalog of targets named in names.
InitWith(starts, lengths, names) ==
    /\ pc = "sort"
    /\ orig_start \in starts
    /\ start = orig_start + Minutes(25)
    /\ \E len \in lengths : stop = orig_start + len
    /\ rec_secs_initial \in Capacities
    /\ rec_secs_possible = rec_secs_initial
    /\ rec_secs_allocated = 0
    /\ lines \in Catalogs(orig_start, names)
    /\ bdys = lines
    /\ idx = 0
    /\ verdicts = <<>>
    /\ bdys_run = <<>>
    /\ bidx = 0
    /\ load = [b \in Beams |-> 0]
    /\ freeWindows = <<>>
    /\ busyWindows = <<>>
    /\ dry_run \in BOOLEAN
    /\ session_id = 0
    /\ filenames = <<>>
    /\ success = "not_called"
    /\ sdf_dir_made = FALSE
    /\ state_file = <<>>
    /\ catalog_file = <<>>
    /\ atCommands = <<>>
    /\ fidx = 0
    /\ placed = <<>>
    /\ tTBWLast = 0
    /\ tDRSULast = 0
    /\ tLWADBLast = 0
    /\ at_jobs = <<>>
    /\ log_file = <<>>
    /\ exit_status = -1
    /\ dry_plan = <<>>

\* A run for a window of the usual length.
Init == InitWith(OrigStarts, WindowLengths, Names)

\* A run for a window of half an hour or of nearly 20 hours.
InitDay == InitWith(DayStarts, DayLengths, DayNames)

\* A dry run for a window of the usual length.
InitTwice == InitWith(OrigStarts, WindowLengths, Names) /\ dry_run

(***************************************************************************)
(* Target admission (main, "Come up a list of objects to observe")         *)
(***************************************************************************)
\* "Sort the pulsars by observability rank": key last_mjd - mjd_start.
SortCatalog ==
    /\ pc = "sort"
    /\ bdys' = Items(SortByKey([i \in DOMAIN bdys |->
                    <<bdys[i].last_mjd - dt2mjd(start), bdys[i]>>]))
    /\ idx' = 1
    /\ pc' = "admit"
    /\ UNCHANGED <<inputs, emission, rec_secs_possible, rec_secs_allocated,
                   verdicts, bdys_run, bidx, load, freeWindows, busyWindows>>

\* The space test with > for >=.
NoSpace_Strict(bdy, possible) == bdy.duration > possible

\* "Is there any space left at this point?"
NoSpace(bdy, possible) == bdy.duration >= possible

\* The overlap test of the conflict loop, on two <<start, stop>> pairs.
Overlap(css, pss) ==
    \/ (css[1] >= pss[1] /\ css[1] <= pss[2])
    \/ (css[2] >= pss[1] /\ css[2] <= pss[2])
    \/ (pss[1] >= css[1] /\ pss[1] <= css[2])
    \/ (pss[2] >= css[1] /\ pss[2] <= css[2])

\* The conflict test with only the first clause of the overlap test: the
\* candidate starts inside an admitted interval.
Conflict_StartOnly(bdy, run) ==
    \E i \in DOMAIN run :
        LET css == get_start_stop(bdy, start, TRUE)
            pss == get_start_stop(run[i], start, TRUE)
        IN  css[1] >= pss[1] /\ css[1] <= pss[2]

\* The conflict test on the intervals without padding.
Conflict_Unpadded(bdy, run) ==
    \E i \in DOMAIN run :
        Overlap(get_start_stop(bdy, start, FALSE), get_start_stop(run[i], start, FALSE))

\* "Is there a conflict with something that we have previously added to the
\* list?"  Both intervals come from get_start_stop(start, stop), that is with
\* its default padding=True.
Conflict(bdy, run) ==
    \E i \in DOMAIN run :
        Overlap(get_start_stop(bdy, start, TRUE), get_start_stop(run[i], start, TRUE))

\* The budget left as it was.
Remaining_NoDecrement(possible, bdy) == possible

\* rec_secs_possible -= bdy.duration
Remaining(possible, bdy) == possible - bdy.duration

\* bdy.final = bdy.get_start_stop(start, stop, padding=False)
Final(bdy) == get_start_stop(bdy, start, FALSE)

\* The target object once admitted: the catalog fields and bdy.final
\* (bdy.beams is set by the beam assignment).
Admitted(bdy) ==
    [name |-> bdy.name, duration |-> bdy.duration, cadence |-> bdy.cadence,
     last_mjd |-> bdy.last_mjd, transit |-> bdy.transit, up |-> bdy.up,
     final |-> Final(bdy), beams |-> <<>>]

\* History of the loop: the candidate, the budget it met and the outcome.
Verdict(bdy, v) ==
    [name |-> bdy.name, duration |-> bdy.duration, verdict |-> v,
     possible |-> rec_secs_possible]

\* One iteration of the loop that ends in "continue".
Skip(v) ==
    /\ idx' = idx + 1
    /\ verdicts' = Append(verdicts, Verdict(bdys[idx], v))
    /\ UNCHANGED <<pc, inputs, emission, rec_secs_possible, rec_secs_allocated,
                   bdys, bdys_run, bidx, load, freeWindows, busyWindows>>

SkipNoSpace ==
    /\ pc = "admit" /\ idx <= Len(bdys)
    /\ NoSpace(bdys[idx], rec_secs_possible)
    /\ Skip("no_space")

SkipNotDue ==
    /\ pc = "admit" /\ idx <= Len(bdys)
    /\ ~NoSpace(bdys[idx], rec_secs_possible)
    /\ ~should_run(bdys[idx], start)
    /\ Skip("not_due")

SkipCannotRun ==
    /\ pc = "admit" /\ idx <= Len(bdys)
    /\ ~NoSpace(bdys[idx], rec_secs_possible)
    /\ should_run(bdys[idx], start)
    /\ ~can_run(bdys[idx], start, stop)
    /\ Skip("cannot_run")

SkipConflict ==
    /\ pc = "admit" /\ idx <= Len(bdys)
    /\ ~NoSpace(bdys[idx], rec_secs_possible)
    /\ should_run(bdys[idx], start)
    /\ can_run(bdys[idx], start, stop)
    /\ Conflict(bdys[idx], bdys_run)
    /\ Skip("conflict")

\* "Add it to the list"
Admit ==
    /\ pc = "admit" /\ idx <= Len(bdys)
    /\ ~NoSpace(bdys[idx], rec_secs_possible)
    /\ should_run(bdys[idx], start)
    /\ can_run(bdys[idx], start, stop)
    /\ ~Conflict(bdys[idx], bdys_run)
    /\ bdys_run' = Append(bdys_run, Admitted(bdys[idx]))
    /\ rec_secs_possible' = Remaining(rec_secs_possible, bdys[idx])
    /\ rec_secs_allocated' = rec_secs_allocated + bdys[idx].duration
    /\ idx' = idx + 1
    /\ verdicts' = Append(verdicts, Verdict(bdys[idx], "admitted"))
    /\ UNCHANGED <<pc, inputs, emission, bdys, bidx, load, freeWindows, busyWindows>>

\* End of the loop: bdys_run.sort(key=lambda x: x.final[0])
SortRun ==
    /\ pc = "admit" /\ idx > Len(bdys)
    /\ bdys_run' = Items(SortByKey([i \in DOMAIN bdys_run |->
                        <<bdys_run[i].final[1], bdys_run[i]>>]))
    /\ bidx' = 1
    /\ pc' = "beams"
    /\ UNCHANGED <<inputs, emission, rec_secs_possible, rec_secs_allocated, bdys,
                   idx, verdicts, load, freeWindows, busyWindows>>

(***************************************************************************)
(* Beam assignment ("Assign each observation set to beams")                *)
(***************************************************************************)
\* The beams by descending load, equal loads by descending beam.
BeamOrder_Descending(ld) ==
    Items(SortByKey(<<<<0 - ld[4], 4>>, <<0 - ld[3], 3>>, <<0 - ld[2], 2>>>>))

\* [lbp[1] for lbp in sorted([(load[b],b) for b in load])]: the beams by
\* ascending load, equal loads by ascending beam.
BeamOrder(ld) == Items(SortByKey(<<<<ld[2], 2>>, <<ld[3], 3>>, <<ld[4], 4>>>>))

\* The first beam taken twice.
BeamPair_Same(beams) == <<beams[1], beams[1]>>

\* bdy.beams = sorted((beams[0], beams[1]))
BeamPair(beams) ==
    IF beams[1] <= beams[2] THEN <<beams[1], beams[2]>> ELSE <<beams[2], beams[1]>>

\* The duration added to the first beam only.
AddLoad_FirstOnly(ld, beams, dur) == [ld EXCEPT ![beams[1]] = @ + dur]

\* load[beams[0]] += bdy.duration; load[beams[1]] += bdy.duration
AddLoad(ld, beams, dur) ==
    LET l1 == [ld EXCEPT ![beams[1]] = @ + dur]
    IN  [l1 EXCEPT ![beams[2]] = @ + dur]

AssignBeams ==
    /\ pc = "beams" /\ bidx <= Len(bdys_run)
    /\ LET beams == BeamOrder(load)
       IN  /\ bdys_run' = [bdys_run EXCEPT ![bidx].beams = BeamPair(beams)]
           /\ load' = AddLoad(load, beams, bdys_run[bidx].duration)
    /\ bidx' = bidx + 1
    /\ UNCHANGED <<pc, inputs, emission, rec_secs_possible, rec_secs_allocated,
                   bdys, idx, verdicts, freeWindows, busyWindows>>

BeamsDone ==
    /\ pc = "beams" /\ bidx > Len(bdys_run)
    /\ pc' = "free"
    /\ UNCHANGED <<inputs, emission, admission, freeWindows, busyWindows>>

(***************************************************************************)
(* Free and busy periods                                                   *)
(***************************************************************************)
\* The free test without the 20 minute guards.
IsFree_NoGuard(tFree, run) ==
    \A i \in DOMAIN run :
        \/ tFree < run[i].final[1]
        \/ tFree > run[i].final[2]

\* The free test with the two ends of the guarded interval taken as free.
IsFree_ClosedGuard(tFree, run) ==
    \A i \in DOMAIN run :
        \/ tFree <= run[i].final[1] - Minutes(20)
        \/ tFree >= run[i].final[2] + Minutes(20)

\* The inner loop of "Times": tFree is free when, for every admitted target,
\* it is before final[0] - 20 min or after final[1] + 20 min.
IsFree(tFree, run) ==
    \A i \in DOMAIN run :
        \/ tFree < run[i].final[1] - Minutes(20)
        \/ tFree > run[i].final[2] + Minutes(20)

\* The times block_start, block_start + 2 min, ... that are < block_stop.
Samples(block_start, block_stop) ==
    IF block_stop <= block_start THEN <<>>
    ELSE [k \in 1..((block_stop - block_start + Minutes(2) - 1) \div Minutes(2)) |->
             block_start + (k - 1) * Minutes(2)]

\* freeTime: the free samples, in order.
FreeTime(run, block_start, block_stop) ==
    SelectSeq(Samples(block_start, block_stop), LAMBDA tFree : IsFree(tFree, run))

\* The test of "for tFree in freeTime": tFree extends the last window when
\* it is at most 120 s after that window's end, else it opens a new one.
Joins(last_stop, tFree) == tFree - last_stop <= 120

\* "Windows": the loop extends the last window sample by sample, so that a
\* window runs from a sample that does not join its predecessor (or from the
\* first sample) to the last sample of the chain of joining samples that
\* follows it; the windows of zero length are then dropped.
FreeWindowsOf(ft) ==
    LET n == Len(ft)
        Opens(i) == i = 1 \/ ~Joins(ft[i - 1], ft[i])
        Closes(j) == j = n \/ ~Joins(ft[j], ft[j + 1])
        EndOf(i) == CHOOSE j \in i..n :
                        Closes(j) /\ \A k \in i..(j - 1) : ~Closes(k)
        opens == SelectSeq([i \in 1..n |-> i], Opens)
        ws == [k \in DOMAIN opens |-> <<ft[opens[k]], ft[EndOf(opens[k])]>>]
    IN  SelectSeq(ws, LAMBDA w : w[2] - w[1] > 0)

FreePeriods ==
    /\ pc = "free"
    /\ freeWindows' = FreeWindowsOf(FreeTime(bdys_run, start, stop))
    /\ pc' = "busy"
    /\ UNCHANGED <<inputs, emission, admission, busyWindows>>

\* The merge test inverted.
BusyStep_Inverted(ws, final) ==
    IF final[1] - ws[Len(ws)][2] > Minutes(45)
    THEN [ws EXCEPT ![Len(ws)] =
             <<ws[Len(ws)][1], IF ws[Len(ws)][2] >= final[2] THEN ws[Len(ws)][2] ELSE final[2]>>]
    ELSE Append(ws, final)

\* The merge test with < for <=.
BusyStep_StrictTolerance(ws, final) ==
    IF final[1] - ws[Len(ws)][2] < Minutes(45)
    THEN [ws EXCEPT ![Len(ws)] =
             <<ws[Len(ws)][1], IF ws[Len(ws)][2] >= final[2] THEN ws[Len(ws)][2] ELSE final[2]>>]
    ELSE Append(ws, final)

\* One iteration of "for bdy in bdys_run" of "Indentify busy times".
BusyStep(ws, final) ==
    IF final[1] - ws[Len(ws)][2] <= Minutes(45)
    THEN [ws EXCEPT ![Len(ws)] =
             <<ws[Len(ws)][1], IF ws[Len(ws)][2] >= final[2] THEN ws[Len(ws)][2] ELSE final[2]>>]
    ELSE Append(ws, final)

RECURSIVE BusyFrom(_, _, _)
BusyFrom(ws, run, i) ==
    IF i > Len(run) THEN ws ELSE BusyFrom(BusyStep(ws, run[i].final), run, i + 1)

BusyWindowsOf(run) ==
    IF Len(run) > 0 THEN BusyFrom(<<run[1].final>>, run, 1) ELSE <<>>

BusyTimes ==
    /\ pc = "busy"
    /\ busyWindows' = BusyWindowsOf(bdys_run)
    /\ pc' = "build"
    /\ UNCHANGED <<inputs, emission, admission, freeWindows>>

(***************************************************************************)
(* SDF files and their submission                                          *)
(***************************************************************************)
\* Content of the 'state' file this run may find (1 is also what a missing
\* or unreadable file gives).
SessionIds == {1}

\* The SDFs of one target, one per beam, numbered from sid.
SDFsOf(bdy, sid) ==
    <<[name |-> bdy.name, beam |-> bdy.beams[1], id |-> sid],
      [name |-> bdy.name, beam |-> bdy.beams[2], id |-> sid + 1]>>

RECURSIVE SDFsFrom(_, _, _)
SDFsFrom(run, i, sid) ==
    IF i > Len(run) THEN <<>>
    ELSE SDFsOf(run[i], sid) \o SDFsFrom(run, i + 1, sid + 2)

\* os.path.exists(sdf_dir): the run is the first of its date, the directory
\* is not there yet.
DateDirExists == {FALSE}

\* "Load in the next session ID", "Make sure we have a place to put the
\* SDFs" and "Build the observations": two sessions per admitted target;
\* the files are written, and the directory made, only when not dry_run.
BuildObservations ==
    /\ pc = "build"
    /\ \E sid \in SessionIds, exists \in DateDirExists :
        /\ sdf_dir_made' = (~dry_run /\ ~exists)
        /\ filenames' = IF dry_run THEN <<>> ELSE SDFsFrom(bdys_run, 1, sid)
        /\ session_id' = sid + 2 * Len(bdys_run)
    /\ pc' = "submit"
    /\ UNCHANGED <<inputs, placed, admission, freeWindows, busyWindows, success, state_file,
                   catalog_file, atCommands, fidx, tTBWLast, tDRSULast,
                   tLWADBLast, at_jobs, log_file, exit_status>>

\* schedule_sdfs is not called in a dry run or without files.
SubmitSkipped ==
    /\ pc = "submit"
    /\ dry_run \/ filenames = <<>>
    /\ pc' = "writeback"
    /\ UNCHANGED <<inputs, admission, emission, freeWindows, busyWindows>>

\* schedule_sdfs(filenames) reports success.
SubmitSucceeds ==
    /\ pc = "submit"
    /\ ~dry_run /\ filenames # <<>>
    /\ success' = "ok"
    /\ pc' = "writeback"
    /\ UNCHANGED <<inputs, placed, admission, freeWindows, busyWindows, session_id,
                   filenames, sdf_dir_made, state_file, catalog_file, atCommands,
                   fidx, tTBWLast, tDRSULast, tLWADBLast, at_jobs, log_file,
                   exit_status>>

\* The failure is reported but the run goes on.
SubmitFails_NoExit ==
    /\ pc = "submit"
    /\ ~dry_run /\ filenames # <<>>
    /\ success' = "failed"
    /\ pc' = "writeback"
    /\ UNCHANGED <<inputs, placed, admission, freeWindows, busyWindows, session_id,
                   filenames, sdf_dir_made, state_file, catalog_file, atCommands,
                   fidx, tTBWLast, tDRSULast, tLWADBLast, at_jobs, log_file,
                   exit_status>>

\* schedule_sdfs(filenames) reports failure: sys.exit(1).
SubmitFails ==
    /\ pc = "submit"
    /\ ~dry_run /\ filenames # <<>>
    /\ success' = "failed"
    /\ pc' = "exit"
    /\ exit_status' = 1
    /\ UNCHANGED <<inputs, placed, admission, freeWindows, busyWindows, session_id,
                   filenames, sdf_dir_made, state_file, catalog_file, atCommands,
                   fidx, tTBWLast, tDRSULast, tLWADBLast, at_jobs, log_file>>

(***************************************************************************)
(* Writing the session ID and the catalog back                             *)
(***************************************************************************)
\* Pulsar.within_beam: separation of at most 1.5 degrees.  The targets of
\* the model lie on one declination circle, where 1.5 degrees of right
\* ascension are 6 minutes of transit time.
within_beam(bdy, other) ==
    /\ bdy.transit - other.transit <= Minutes(6)
    /\ other.transit - bdy.transit <= Minutes(6)

\* bdy.last_mjd = dt2mjd(bdy.get_start_stop(start, stop, obs)[0])[0]
\* (the third argument, obs, is taken as padding and is true).
NewLastMJD(bdy) == dt2mjd(get_start_stop(bdy, start, TRUE)[1])

\* The catalog entry bdy after the updates for the admitted targets
\* run[i..]: an admitted target gets the MJD of its own observation, an
\* opportunistic one that of each admitted target whose beam holds it.
RECURSIVE UpdatedFrom(_, _, _)
UpdatedFrom(bdy, run, i) ==
    IF i > Len(run) THEN bdy
    ELSE LET own == IF run[i].name = bdy.name
                    THEN [bdy EXCEPT !.last_mjd = NewLastMJD(run[i])]
                    ELSE bdy
             opt == IF own.cadence <= 0 /\ within_beam(run[i], own)
                    THEN [own EXCEPT !.last_mjd = NewLastMJD(run[i])]
                    ELSE own
         IN  UpdatedFrom(opt, run, i + 1)

WriteBack ==
    /\ pc = "writeback"
    /\ IF dry_run
       THEN UNCHANGED <<state_file, bdys, bdys_run, catalog_file>>
       ELSE /\ state_file' = <<session_id>>
            /\ bdys' = [i \in DOMAIN bdys |-> UpdatedFrom(bdys[i], bdys_run, 1)]
            /\ bdys_run' = [i \in DOMAIN bdys_run |->
                               [bdys_run[i] EXCEPT !.last_mjd = NewLastMJD(bdys_run[i])]]
            /\ catalog_file' = <<bdys'>>
    /\ pc' = "ini"
    /\ UNCHANGED <<inputs, placed, rec_secs_possible, rec_secs_allocated, idx, verdicts,
                   bidx, load, freeWindows, busyWindows, session_id,
                   filenames, success, sdf_dir_made, atCommands, fidx, tTBWLast, tDRSULast,
                   tLWADBLast, at_jobs, log_file, exit_status>>

(***************************************************************************)
(* Other commands ("Scheduling other commands")                            *)
(***************************************************************************)
\* t.replace(second=0, microsecond=0)
FloorMinute(t) == t - (t % 60)

\* t.hour
HourOf(t) == (t % 86400) \div 3600

Cmd(t, c) == [t |-> t, cmd |-> c]

\* The time of the INI without the floor to the minute.
IniTime_NoFloor(busyWindow) == busyWindow[1] - Minutes(20)

\* The time of the INI 20 minutes after the start of the busy window.
IniTime_After(busyWindow) == FloorMinute(busyWindow[1] + Minutes(20))

\* tINI: 20 minutes before the start of the busy window, second=0.
IniTime(busyWindow) == FloorMinute(busyWindow[1] - Minutes(20))

\* "INIdp.sh calls at the start and end of each busy window": one per busy
\* window, 20 minutes before its start.
IniCommands ==
    /\ pc = "ini"
    /\ atCommands' = [i \in DOMAIN busyWindows |->
                         Cmd(IniTime(busyWindows[i]), "INIdp.sh")]
    /\ tTBWLast' = orig_start - Hours(12)
    /\ tDRSULast' = orig_start - Hours(12)
    /\ tLWADBLast' = orig_start - Hours(12)
    /\ fidx' = 1
    /\ pc' = "maintenance"
    /\ UNCHANGED <<inputs, placed, admission, freeWindows, busyWindows, session_id,
                   filenames, success, sdf_dir_made, state_file, catalog_file, at_jobs,
                   log_file, exit_status>>

\* The state of the placement inside one free window; steps is the history
\* of the iterations of its while loop.
Placement(tTBW, tDRSU, tLWADB, lastTBW, lastDRSU, lastLWADB, cmds) ==
    [tTBW |-> tTBW, tDRSU |-> tDRSU, tLWADB |-> tLWADB, tTBWLast |-> lastTBW,
     tDRSULast |-> lastDRSU, tLWADBLast |-> lastLWADB, cmds |-> cmds,
     steps |-> <<>>]

\* A health check that leaves its timestamp as it was.
FireTBW_NoTimestamp(m) ==
    [m EXCEPT !.cmds = Append(@, Cmd(m.tTBW, "acquireHealthCheckAndProcess.py"))]

\* A health check at m.tTBW.
FireTBW(m) ==
    [m EXCEPT !.cmds = Append(@, Cmd(m.tTBW, "acquireHealthCheckAndProcess.py")),
              !.tTBWLast = m.tTBW]

\* A DRSU selection at m.tDRSU and the status post 2 minutes later.
FireDRSU(m) ==
    [m EXCEPT !.cmds = @ \o <<Cmd(m.tDRSU, "selectBestDRSU.py"),
                              Cmd(m.tDRSU + Minutes(2), "postDRSUStatus.py")>>,
              !.tDRSU = m.tDRSU + Minutes(2),
              !.tDRSULast = m.tDRSU + Minutes(2)]

\* A DRSU scan whose timestamp is the time of the scan.
FireLWADB_NoExtension(m) ==
    IF HourOf(m.tLWADB) >= 8
    THEN [m EXCEPT !.cmds = Append(@, Cmd(m.tLWADB, "scanDRSUs.sh")),
                   !.tLWADBLast = m.tLWADB]
    ELSE m

\* A DRSU scan at m.tLWADB, when its hour is at least 8.
FireLWADB(m) ==
    IF HourOf(m.tLWADB) >= 8
    THEN [m EXCEPT !.cmds = Append(@, Cmd(m.tLWADB, "scanDRSUs.sh")),
                   !.tLWADBLast = m.tLWADB + Hours(24)]
    ELSE m

\* A DRSU selection that is due 4 hours after the last one.
DRSUDue_FourHours(m) == m.tDRSU > m.tDRSULast + Hours(4)

\* tTBW > tTBWLast + timedelta(hours=4)
TBWDue(m) == m.tTBW > m.tTBWLast + Hours(4)

\* tDRSU > tDRSULast + timedelta(hours=6)
DRSUDue(m) == m.tDRSU > m.tDRSULast + Hours(6)

\* tLWADB > tLWADBLast + timedelta(hours=4)
LWADBDue(m) == m.tLWADB > m.tLWADBLast + Hours(4)

\* History of one iteration of the while loop: the pointers and timestamps
\* it met in m, the commands it added and the health check pointer it left.
StepTaken(m, fired) ==
    [tTBW |-> m.tTBW, tDRSU |-> m.tDRSU, tLWADB |-> m.tLWADB,
     tTBWLast |-> m.tTBWLast, tDRSULast |-> m.tDRSULast,
     tLWADBLast |-> m.tLWADBLast,
     cmds |-> SubSeq(fired.cmds, Len(m.cmds) + 1, Len(fired.cmds))]

\* The body of the loop with three independent tests for the "elif" chain.
LongStep_NoElse(m) ==
    LET a == IF TBWDue(m) THEN FireTBW(m) ELSE m
        b == IF DRSUDue(a) THEN FireDRSU(a) ELSE a
        fired == IF LWADBDue(b) THEN FireLWADB(b) ELSE b
    IN  [fired EXCEPT !.tTBW = @ + Minutes(15),
                      !.tDRSU = @ + Minutes(15),
                      !.tLWADB = @ + Minutes(15),
                      !.steps = Append(@, StepTaken(m, fired))]

\* The body of the while loop of a window of at least 45 minutes.
LongStep(m) ==
    LET fired == IF TBWDue(m) THEN FireTBW(m)
                 ELSE IF DRSUDue(m) THEN FireDRSU(m)
                 ELSE IF LWADBDue(m) THEN FireLWADB(m)
                 ELSE m
    IN  [fired EXCEPT !.tTBW = @ + Minutes(15),
                      !.tDRSU = @ + Minutes(15),
                      !.tLWADB = @ + Minutes(15),
                      !.steps = Append(@, StepTaken(m, fired))]

\* while tTBW <= (freeWindow[1] - timedelta(minutes=6))
RECURSIVE LongLoop(_, _)
LongLoop(m, f1) ==
    IF m.tTBW <= f1 - Minutes(6) THEN LongLoop(LongStep(m), f1) ELSE m

\* A window of at least 15 and less than 45 minutes with two independent
\* tests.
MediumStep_Both(m) ==
    LET a == IF TBWDue(m) THEN FireTBW(m) ELSE m
    IN  IF DRSUDue(a) THEN FireDRSU(a) ELSE a

\* A window of at least 15 and less than 45 minutes.
MediumStep(m) ==
    IF TBWDue(m) THEN FireTBW(m)
    ELSE IF DRSUDue(m) THEN FireDRSU(m)
    ELSE m

\* A window of at least 6 and less than 15 minutes.
ShortStep(m) == IF DRSUDue(m) THEN FireDRSU(m) ELSE m

\* "i == 0 or abs(freeWindow[0] - start) >= timedelta(minutes=3)"
StartsTBN(i, f0) ==
    i = 1 \/ f0 - start >= Minutes(3) \/ start - f0 >= Minutes(3)

\* max([bdy.final[1] for bdy in bdys_run]) of a non-empty list.
LastStop(run) ==
    CHOOSE t \in {run[i].final[2] : i \in DOMAIN run} :
        \A i \in DOMAIN run : run[i].final[2] <= t

\* The default-mode command, given twice.
StartTBN_Twice(cmds, f0) ==
    cmds \o <<Cmd(f0, "startTBN_split.sh"), Cmd(f0, "startTBN_split.sh")>>

\* tTBN = freeWindow[0]; atCommands.append((tTBN, startTBN_split.sh))
StartTBN(cmds, f0) == Append(cmds, Cmd(f0, "startTBN_split.sh"))

\* The placement after free window i = <<f0, f1>>, from the timestamps
\* lastTBW, lastDRSU, lastLWADB and the commands cmds built so far.
PlaceWindow(i, f0, f1, n, run, lastTBW, lastDRSU, lastLWADB, cmds) ==
    LET length == f1 - f0
        t4 == FloorMinute(f0 + Minutes(4))
        t2 == FloorMinute(f0 + Minutes(2))
        tbn == StartTBN(cmds, f0)
    IN  IF length >= Minutes(45)
        THEN LongLoop(Placement(t4, t4, t4, lastTBW, lastDRSU, lastLWADB,
                                IF StartsTBN(i, f0) THEN tbn ELSE cmds), f1)
        ELSE IF length >= Minutes(15)
        THEN MediumStep(Placement(t4, t4, t4, lastTBW, lastDRSU, lastLWADB, cmds))
        ELSE IF length >= Minutes(6)
        THEN ShortStep(Placement(t2, t2, t2, lastTBW, lastDRSU, lastLWADB, cmds))
        ELSE Placement(t2, t2, t2, lastTBW, lastDRSU, lastLWADB,
                       IF i = n /\ f0 > LastStop(run) THEN tbn ELSE cmds)

\* The last window is shorter than 6 minutes and nothing was admitted:
\* max() of an empty list raises ValueError.
RaisesValueError(i, f0, f1, n, run) ==
    f1 - f0 < Minutes(6) /\ i = n /\ Len(run) = 0

\* History of the loop: window i = <<f0, f1>>, the timestamps it met, the
\* commands it was given and the steps of its while loop.
Placed(i, f0, f1, m) ==
    [i |-> i, f0 |-> f0, f1 |-> f1, tTBWLast |-> tTBWLast,
     tDRSULast |-> tDRSULast, tLWADBLast |-> tLWADBLast,
     cmds |-> SubSeq(m.cmds, Len(atCommands) + 1, Len(m.cmds)), steps |-> m.steps]

\* One iteration of "for i,freeWindow in enumerate(freeWindows)".
Maintenance ==
    /\ pc = "maintenance" /\ fidx <= Len(freeWindows)
    /\ LET f0 == freeWindows[fidx][1]
           f1 == freeWindows[fidx][2]
       IN  IF RaisesValueError(fidx, f0, f1, Len(freeWindows), bdys_run)
           THEN /\ pc' = "exit"
                /\ exit_status' = 1
                /\ UNCHANGED <<atCommands, tTBWLast, tDRSULast, tLWADBLast, fidx,
                               placed>>
           ELSE LET m == PlaceWindow(fidx, f0, f1, Len(freeWindows), bdys_run,
                                     tTBWLast, tDRSULast, tLWADBLast, atCommands)
                IN  /\ atCommands' = m.cmds
                    /\ tTBWLast' = m.tTBWLast
                    /\ tDRSULast' = m.tDRSULast
                    /\ tLWADBLast' = m.tLWADBLast
                    /\ fidx' = fidx + 1
                    /\ placed' = Append(placed, Placed(fidx, f0, f1, m))
                    /\ UNCHANGED <<pc, exit_status>>
    /\ UNCHANGED <<inputs, admission, freeWindows, busyWindows, session_id,
                   filenames, success, sdf_dir_made, state_file, catalog_file, at_jobs,
                   log_file>>

\* The commands handed over in a dry run as well.
ImplementCommands_Always ==
    /\ pc = "maintenance" /\ fidx > Len(freeWindows)
    /\ at_jobs' = atCommands
    /\ pc' = "log"
    /\ UNCHANGED <<inputs, placed, admission, freeWindows, busyWindows, session_id,
                   filenames, success, sdf_dir_made, state_file, catalog_file, atCommands,
                   fidx, tTBWLast, tDRSULast, tLWADBLast, log_file, exit_status>>

\* "Implement the commands": each is handed to schedule_at_command unless
\* this is a dry run.
ImplementCommands ==
    /\ pc = "maintenance" /\ fidx > Len(freeWindows)
    /\ at_jobs' = IF dry_run THEN <<>> ELSE atCommands
    /\ pc' = "log"
    /\ UNCHANGED <<inputs, placed, admission, freeWindows, busyWindows, session_id,
                   filenames, success, sdf_dir_made, state_file, catalog_file, atCommands,
                   fidx, tTBWLast, tDRSULast, tLWADBLast, log_file, exit_status>>

\* The timeline entries of the admitted targets.
Timeline(run) ==
    [k \in 1..(2 * Len(run)) |->
        IF k % 2 = 1 THEN Cmd(run[(k + 1) \div 2].final[1], "starts")
        ELSE Cmd(run[k \div 2].final[2], "stops")]

\* "Done, saving log": the commands and the timeline, sorted by time, are
\* appended to runtime.log unless this is a dry run.
SaveLog ==
    /\ pc = "log"
    /\ log_file' = IF dry_run THEN <<>>
                   ELSE Items(SortByKey([k \in 1..(Len(atCommands) + 2 * Len(bdys_run)) |->
                            LET e == (atCommands \o Timeline(bdys_run))[k]
                            IN  <<e.t, e>>]))
    /\ pc' = "exit"
    /\ exit_status' = 0
    /\ UNCHANGED <<inputs, placed, admission, freeWindows, busyWindows, session_id,
                   filenames, success, sdf_dir_made, state_file, catalog_file, atCommands,
                   fidx, tTBWLast, tDRSULast, tLWADBLast, at_jobs>>

Next ==
    \/ SortCatalog
    \/ SkipNoSpace
    \/ SkipNotDue
    \/ SkipCannotRun
    \/ SkipConflict
    \/ Admit
    \/ SortRun
    \/ AssignBeams
    \/ BeamsDone
    \/ FreePeriods
    \/ BusyTimes
    \/ BuildObservations
    \/ SubmitSkipped
    \/ SubmitSucceeds
    \/ SubmitFails
    \/ WriteBack
    \/ IniCommands
    \/ Maintenance
    \/ ImplementCommands
    \/ SaveLog

Spec == Init /\ [][Next]_vars

SpecDay == InitDay /\ [][Next]_vars

\* What a run computed: the admitted targets with their intervals and
\* beams, the free and busy windows, the commands and the exit status.
Plan ==
    [run |-> [i \in DOMAIN bdys_run |->
                 [name |-> bdys_run[i].name, final |-> bdys_run[i].final,
                  beams |-> bdys_run[i].beams]],
     freeWindows |-> freeWindows, busyWindows |-> busyWindows,
     atCommands |-> atCommands, exit_status |-> exit_status]

\* The script is run again without --dry-run, after a dry run has ended, for
\* the same window, with the same catalog and the same free space.
RunAgain ==
    /\ pc = "exit" /\ dry_run /\ dry_plan = <<>>
    /\ dry_plan' = <<Plan>>
    /\ dry_run' = FALSE
    /\ pc' = "sort"
    /\ rec_secs_possible' = rec_secs_initial
    /\ rec_secs_allocated' = 0
    /\ bdys' = lines
    /\ idx' = 0
    /\ verdicts' = <<>>
    /\ bdys_run' = <<>>
    /\ bidx' = 0
    /\ load' = [b \in Beams |-> 0]
    /\ freeWindows' = <<>>
    /\ busyWindows' = <<>>
    /\ session_id' = 0
    /\ filenames' = <<>>
    /\ success' = "not_called"
    /\ sdf_dir_made' = FALSE
    /\ state_file' = <<>>
    /\ catalog_file' = <<>>
    /\ atCommands' = <<>>
    /\ fidx' = 0
    /\ placed' = <<>>
    /\ tTBWLast' = 0
    /\ tDRSULast' = 0
    /\ tLWADBLast' = 0
    /\ at_jobs' = <<>>
    /\ log_file' = <<>>
    /\ exit_status' = -1
    /\ UNCHANGED <<orig_start, start, stop, rec_secs_initial, lines>>

NextTwice == Next \/ RunAgain

\* A dry run followed by a normal run on the same inputs.
SpecTwice == InitTwice /\ [][NextTwice]_vars


(***************************************************************************)
(* Properties                                                              *)
(***************************************************************************)
\* Two closed intervals <<start, stop>> share no instant, not even an end.
Disjoint(a, b) == a[2] < b[1] \/ b[2] < a[1]

RECURSIVE SumDurations(_)
SumDurations(run) ==
    IF run = <<>> THEN 0 ELSE Head(run).duration + SumDurations(Tail(run))

\* Largest duration among the first n targets of run (0 when n = 0).
MaxDuration(run, n) ==
    IF n = 0 THEN 0
    ELSE CHOOSE d \in {run[i].duration : i \in 1..n} :
             \A i \in 1..n : run[i].duration <= d

MaxLoad == CHOOSE l \in {load[b] : b \in Beams} : \A b \in Beams : load[b] <= l
MinLoad == CHOOSE l \in {load[b] : b \in Beams} : \A b \in Beams : load[b] >= l

\* Number of admitted targets that have been given their beams.
Assigned == IF pc \in {"sort", "admit"} THEN 0
            ELSE IF pc = "beams" THEN bidx - 1
            ELSE Len(bdys_run)

\* C1: at every point of the admission loop and after it, the finalized
\* (unpadded) intervals of any two distinct admitted targets share no
\* instant, touching ends included.
C1_AdmittedDisjoint ==
    \A i, j \in DOMAIN bdys_run :
        i # j => Disjoint(bdys_run[i].final, bdys_run[j].final)

\* Two targets are admitted and a third candidate was rejected for conflict.
C1_Witness ==
    /\ Len(bdys_run) >= 2
    /\ \E k \in DOMAIN verdicts : verdicts[k].verdict = "conflict"

\* C2: at every point of the admission loop and at its end, the durations of
\* the admitted targets sum to at most the initial recording budget.
C2_WithinBudget == SumDurations(bdys_run) <= rec_secs_initial

\* Two targets are admitted and a later candidate met a positive budget that
\* was too small for it.
C2_Witness ==
    /\ Len(bdys_run) >= 2
    /\ \E k \in DOMAIN verdicts :
        verdicts[k].verdict = "no_space" /\ verdicts[k].possible > 0

\* C3: every admitted target is cadence-due: its cadence is positive and its
\* last-observed MJD plus its cadence is at most the MJD of the start of the
\* scheduling window (until the write-back gives it the MJD of this
\* observation).
C3_AdmittedAreDue ==
    catalog_file = <<>> =>
        \A i \in DOMAIN bdys_run :
            /\ bdys_run[i].cadence > 0
            /\ bdys_run[i].last_mjd + bdys_run[i].cadence <= dt2mjd(start)

\* A target of cadence 0 and a target whose cadence has not elapsed were both
\* rejected as not due, and another target was admitted.
C3_Witness ==
    /\ pc = "beams"
    /\ Len(bdys_run) >= 1
    /\ \E k \in DOMAIN verdicts :
        verdicts[k].verdict = "not_due" /\ bdys[k].cadence <= 0
    /\ \E k \in DOMAIN verdicts :
        /\ verdicts[k].verdict = "not_due"
        /\ bdys[k].cadence > 0
        /\ bdys[k].last_mjd + bdys[k].cadence > dt2mjd(start)

\* C4: the finalized interval of every admitted target lies within the
\* scheduling window (and within the window as given on the command line).
C4_AdmittedInWindow ==
    \A i \in DOMAIN bdys_run :
        /\ bdys_run[i].final[1] >= start
        /\ bdys_run[i].final[1] >= orig_start
        /\ bdys_run[i].final[2] <= stop

\* A target is admitted and a target that is up was rejected because its
\* padded interval leaves the window.
C4_Witness ==
    /\ Len(bdys_run) >= 1
    /\ \E k \in DOMAIN verdicts :
        verdicts[k].verdict = "cannot_run" /\ bdys[k].up

\* C5: after any number of admitted targets have been given their beams, the
\* largest and the smallest per-beam load differ by at most the largest
\* duration among those targets.
C5_LoadSpread == MaxLoad - MinLoad <= MaxDuration(bdys_run, Assigned)

\* Three targets have their beams, and the spread of the loads is positive.
C5_Witness ==
    /\ Assigned >= 3
    /\ MaxLoad - MinLoad > 0

\* C6 as stated: no free window shares an instant with a busy window.
C6_FreeBusyDisjoint ==
    \A i \in DOMAIN freeWindows, j \in DOMAIN busyWindows :
        Disjoint(freeWindows[i], busyWindows[j])

\* C6, amended: no free window shares an instant with the finalized interval
\* of an admitted target, and a free window that shares an instant with a
\* busy window lies in the gap between two consecutive admitted targets
\* merged into that busy window, more than 20 minutes after the first and
\* more than 20 minutes before the second.
C6_FreeBusyOverlapOnlyInMergeGap ==
    \A i \in DOMAIN freeWindows :
        /\ \A k \in DOMAIN bdys_run : Disjoint(freeWindows[i], bdys_run[k].final)
        /\ \A j \in DOMAIN busyWindows :
            ~Disjoint(freeWindows[i], busyWindows[j]) =>
                \E k \in 1..(Len(bdys_run) - 1) :
                    /\ busyWindows[j][1] <= bdys_run[k].final[1]
                    /\ bdys_run[k + 1].final[2] <= busyWindows[j][2]
                    /\ bdys_run[k].final[2] + Minutes(20) < freeWindows[i][1]
                    /\ freeWindows[i][2] < bdys_run[k + 1].final[1] - Minutes(20)

\* A free window lies inside a busy window, and another busy window and
\* another free window exist.
C6_Witness ==
    /\ \E i \in DOMAIN freeWindows, j \in DOMAIN busyWindows :
        /\ busyWindows[j][1] < freeWindows[i][1]
        /\ freeWindows[i][2] < busyWindows[j][2]
    /\ Len(freeWindows) >= 2
    /\ Len(busyWindows) >= 1

\* C7: when schedule_sdfs reports failure the run ends there with exit
\* status 1: neither the session ID nor the catalog is written, no command
\* is built or handed to schedule_at_command, and nothing is logged.
C7_FailureAborts ==
    success = "failed" =>
        /\ pc = "exit"
        /\ exit_status = 1
        /\ state_file = <<>>
        /\ catalog_file = <<>>
        /\ atCommands = <<>>
        /\ at_jobs = <<>>
        /\ log_file = <<>>

\* The submission of the SDFs of two admitted targets has failed.
C7_Witness ==
    /\ success = "failed"
    /\ Len(filenames) >= 4
    /\ Len(busyWindows) >= 1
    /\ Len(freeWindows) >= 1

\* C8: every admitted target that has been given its beams has exactly two
\* of them, distinct, from {2, 3, 4}, in ascending order.
C8_TwoDistinctBeams ==
    \A i \in 1..Assigned :
        /\ Len(bdys_run[i].beams) = 2
        /\ bdys_run[i].beams[1] \in Beams
        /\ bdys_run[i].beams[2] \in Beams
        /\ bdys_run[i].beams[1] < bdys_run[i].beams[2]

\* Three targets have their beams and the three pairs differ.
C8_Witness ==
    /\ Assigned >= 3
    /\ bdys_run[1].beams # bdys_run[2].beams
    /\ bdys_run[2].beams # bdys_run[3].beams
    /\ bdys_run[1].beams # bdys_run[3].beams

\* C9: in the list of free windows and in the list of busy windows, every
\* window stops strictly before the next one starts.
C9_WindowsOrdered ==
    /\ \A i \in 1..(Len(freeWindows) - 1) :
        freeWindows[i][2] < freeWindows[i + 1][1]
    /\ \A i \in 1..(Len(busyWindows) - 1) :
        busyWindows[i][2] < busyWindows[i + 1][1]

\* There are at least two free windows and two busy windows.
C9_Witness ==
    /\ Len(freeWindows) >= 2
    /\ Len(busyWindows) >= 2

\* C10: a candidate whose duration is equal to or greater than the budget
\* left when it is processed is rejected for lack of space.
C10_StrictCapacity ==
    \A k \in DOMAIN verdicts :
        verdicts[k].duration >= verdicts[k].possible =>
            verdicts[k].verdict = "no_space"

\* A candidate whose duration equals the budget left was rejected for lack
\* of space, after another target was admitted.
C10_Witness ==
    /\ Len(bdys_run) >= 1
    /\ \E k \in DOMAIN verdicts :
        /\ verdicts[k].duration = verdicts[k].possible
        /\ verdicts[k].verdict = "no_space"

\* The commands named c among cmds.
Named(cmds, c) == SelectSeq(cmds, LAMBDA e : e.cmd = c)

\* No maintenance kind has fired when the window of the history entry w is
\* reached: the three timestamps are the nominal start minus 12 hours.
NothingFiredBefore(w) ==
    /\ w.tTBWLast = orig_start - Hours(12)
    /\ w.tDRSULast = orig_start - Hours(12)
    /\ w.tLWADBLast = orig_start - Hours(12)

\* C11: a free window of 50 minutes reached before any maintenance kind has
\* fired is given exactly one health check command, stamped with the start of
\* the window plus 4 minutes floored to the whole minute.
C11_OneHealthCheckInFiftyMinutes ==
    \A k \in DOMAIN placed :
        (placed[k].f1 - placed[k].f0 = Minutes(50) /\ NothingFiredBefore(placed[k]))
        => Named(placed[k].cmds, "acquireHealthCheckAndProcess.py")
               = <<Cmd(FloorMinute(placed[k].f0 + Minutes(4)),
                       "acquireHealthCheckAndProcess.py")>>

\* A 50 minute window that does not start on a whole minute was reached with
\* nothing fired before, and was given its commands.
C11_Witness ==
    \E k \in DOMAIN placed :
        /\ placed[k].f1 - placed[k].f0 = Minutes(50)
        /\ NothingFiredBefore(placed[k])
        /\ placed[k].f0 % 60 # 0
        /\ Len(placed[k].cmds) >= 2

\* Candidate k passed the space, cadence and visibility tests.
Passes(k) == verdicts[k].verdict \in {"conflict", "admitted"}

\* The padded intervals of candidates k and l share an instant.
PaddedOverlap(k, l) ==
    Overlap(get_start_stop(bdys[k], start, TRUE), get_start_stop(bdys[l], start, TRUE))

\* The unpadded intervals of candidates k and l share an instant.
UnpaddedOverlap(k, l) == Overlap(Final(bdys[k]), Final(bdys[l]))

\* C12 as stated: of two candidates that pass the space, cadence and
\* visibility tests and whose intervals overlap, the one processed first is
\* admitted and the later one is rejected for conflict.
C12_FirstOfOverlappingPairAdmitted ==
    \A k, l \in DOMAIN verdicts :
        (k < l /\ Passes(k) /\ Passes(l) /\ UnpaddedOverlap(k, l))
        => (verdicts[k].verdict = "admitted" /\ verdicts[l].verdict = "conflict")

\* C12, amended: of two candidates that pass the space, cadence and
\* visibility tests and whose padded intervals overlap, the later one is
\* rejected for conflict whenever the one processed first is admitted; the
\* first one is rejected only for a conflict with a target admitted before
\* it; and an admitted target stays in the admitted list.
C12_LaterOfOverlappingPairRejected ==
    /\ \A k, l \in DOMAIN verdicts :
        (k < l /\ Passes(k) /\ Passes(l) /\ PaddedOverlap(k, l))
        => /\ verdicts[k].verdict = "admitted" => verdicts[l].verdict = "conflict"
           /\ verdicts[k].verdict = "conflict"
                  => \E j \in 1..(k - 1) :
                        verdicts[j].verdict = "admitted" /\ PaddedOverlap(j, k)
    /\ \A k \in DOMAIN verdicts :
        verdicts[k].verdict = "admitted"
        => \E i \in DOMAIN bdys_run : bdys_run[i].name = verdicts[k].name

\* Three candidates passed the tests: the first was admitted, the second
\* rejected for it, and the third, which overlaps the second, rejected too.
C12_Witness ==
    \E j, k, l \in DOMAIN verdicts :
        /\ j < k /\ k < l
        /\ verdicts[j].verdict = "admitted" /\ PaddedOverlap(j, k)
        /\ verdicts[k].verdict = "conflict" /\ UnpaddedOverlap(k, l)
        /\ verdicts[l].verdict = "conflict"

\* The durations of the candidates admitted among the first k processed.
RECURSIVE AdmittedBy(_)
AdmittedBy(k) ==
    IF k = 0 THEN 0
    ELSE AdmittedBy(k - 1)
         + (IF verdicts[k].verdict = "admitted" THEN verdicts[k].duration ELSE 0)

\* The names of the candidates admitted so far, in processing order.
AdmittedNames ==
    LET adm == SelectSeq(verdicts, LAMBDA v : v.verdict = "admitted")
    IN  [i \in DOMAIN adm |-> adm[i].name]

\* C13: the remaining budget is the initial budget minus the durations of
\* the admitted targets, at every step: each candidate meets the initial
\* budget less the durations admitted before it (an admission takes exactly
\* the duration, a rejection nothing), and the admitted list is the admitted
\* candidates, appended in processing order.
C13_BudgetAccounting ==
    /\ rec_secs_possible = rec_secs_initial - SumDurations(bdys_run)
    /\ rec_secs_allocated = SumDurations(bdys_run)
    /\ \A k \in DOMAIN verdicts :
        verdicts[k].possible = rec_secs_initial - AdmittedBy(k - 1)
    /\ rec_secs_possible = rec_secs_initial - AdmittedBy(Len(verdicts))
    /\ Len(bdys_run) = Len(AdmittedNames)
    /\ pc = "admit" => [i \in DOMAIN bdys_run |-> bdys_run[i].name] = AdmittedNames
    /\ {bdys_run[i].name : i \in DOMAIN bdys_run}
           = {AdmittedNames[i] : i \in DOMAIN AdmittedNames}

\* A one hour target was admitted, then a candidate was rejected, and the
\* budget left is one hour less than the initial budget.
C13_Witness ==
    /\ pc = "admit"
    /\ \E k, l \in DOMAIN verdicts :
        /\ k < l
        /\ verdicts[k].verdict = "admitted" /\ verdicts[k].duration = Hours(1)
        /\ verdicts[l].verdict # "admitted"
    /\ Len(bdys_run) = 1
    /\ rec_secs_possible = rec_secs_initial - Hours(1)
    /\ rec_secs_possible > 0

\* C14 as stated: a candidate that passes the space, cadence and visibility
\* tests is rejected exactly when its unpadded interval shares an instant
\* with the unpadded interval of a target admitted before it.
C14_RejectedIffUnpaddedOverlap ==
    \A k \in DOMAIN verdicts :
        Passes(k)
        => (verdicts[k].verdict = "conflict"
            <=> \E j \in 1..(k - 1) :
                    verdicts[j].verdict = "admitted" /\ UnpaddedOverlap(j, k))

\* C14, amended: a candidate that passes the space, cadence and visibility
\* tests is rejected exactly when its padded interval shares an instant with
\* the padded interval of a target admitted before it, that is when the
\* unpadded intervals overlap or lie at most the padding (10 s) apart.
C14_RejectedIffPaddedOverlap ==
    \A k \in DOMAIN verdicts :
        Passes(k)
        => /\ verdicts[k].verdict = "conflict"
              <=> \E j \in 1..(k - 1) :
                      verdicts[j].verdict = "admitted" /\ PaddedOverlap(j, k)
           /\ \A j \in 1..(k - 1) :
                  PaddedOverlap(j, k)
                  <=> \/ UnpaddedOverlap(j, k)
                      \/ Final(bdys[k])[1] - Final(bdys[j])[2] \in 0..padding
                      \/ Final(bdys[j])[1] - Final(bdys[k])[2] \in 0..padding

\* A candidate was rejected although its unpadded interval shares no instant
\* with that of any target admitted before it, and another was admitted
\* after an admitted target.
C14_Witness ==
    /\ \E k \in DOMAIN verdicts :
        /\ verdicts[k].verdict = "conflict"
        /\ \A j \in 1..(k - 1) :
               verdicts[j].verdict = "admitted" => ~UnpaddedOverlap(j, k)
    /\ \E j, k \in DOMAIN verdicts :
        j < k /\ verdicts[j].verdict = "admitted" /\ verdicts[k].verdict = "admitted"

\* The line of the catalog file that holds the target named n.
LineOf(n) == CHOOSE i \in DOMAIN lines : lines[i].name = n

\* The observability rank of line i of the catalog file.
Rank(i) == lines[i].last_mjd - dt2mjd(start)

\* C15: the candidates are processed in ascending order of observability
\* rank (last observed MJD minus the MJD of the start of the window), those
\* of equal rank in the order of the catalog.
C15_ProcessedByRankThenCatalogOrder ==
    pc # "sort"
    => /\ Len(bdys) = Len(lines)
       /\ \A k \in DOMAIN bdys : \E i \in DOMAIN lines : lines[i].name = bdys[k].name
       /\ \A k, l \in DOMAIN bdys :
            k < l
            => \/ Rank(LineOf(bdys[k].name)) < Rank(LineOf(bdys[l].name))
               \/ /\ Rank(LineOf(bdys[k].name)) = Rank(LineOf(bdys[l].name))
                  /\ LineOf(bdys[k].name) < LineOf(bdys[l].name)
       /\ Len(verdicts) <= Len(bdys)
       /\ \A k \in DOMAIN verdicts : verdicts[k].name = bdys[k].name

\* Three candidates were processed: two of equal rank, and one that the sort
\* moved before a line of greater rank that precedes it in the catalog.
C15_Witness ==
    /\ Len(verdicts) = 3
    /\ \E k, l \in DOMAIN verdicts :
        /\ k < l
        /\ Rank(LineOf(verdicts[k].name)) = Rank(LineOf(verdicts[l].name))
    /\ \E k, l \in DOMAIN verdicts :
        /\ k < l
        /\ Rank(LineOf(verdicts[k].name)) < Rank(LineOf(verdicts[l].name))
        /\ LineOf(verdicts[k].name) > LineOf(verdicts[l].name)

\* Beam x comes before beam c in the order of ascending load ld, equal loads
\* by ascending beam.
LessLoaded(ld, x, c) == ld[x] < ld[c] \/ (ld[x] = ld[c] /\ x < c)

\* C16: the admitted targets get their beams in the order of their final
\* starts; the two beams given to a target are the two of lowest load at that
\* moment, equal loads by ascending beam; the duration of the target is added
\* to the load of exactly those two beams and the third load is unchanged.
C16_TwoLeastLoadedBeams ==
    [][(pc = "beams" /\ bidx <= Len(bdys_run))
       => LET pair == {bdys_run'[bidx].beams[1], bdys_run'[bidx].beams[2]}
              dur == bdys_run[bidx].duration
          IN  /\ pair \subseteq Beams
              /\ Cardinality(pair) = 2
              /\ \A x \in pair, c \in Beams \ pair : LessLoaded(load, x, c)
              /\ \A x \in pair : load'[x] = load[x] + dur
              /\ \A c \in Beams \ pair : load'[c] = load[c]
              /\ \A i \in 1..(bidx - 1) :
                     /\ bdys_run[i].final[1] <= bdys_run[bidx].final[1]
                     /\ bdys_run[i].beams # <<>>
              /\ \A i \in (bidx + 1)..Len(bdys_run) :
                     /\ bdys_run[bidx].final[1] <= bdys_run[i].final[1]
                     /\ bdys_run'[i].beams = <<>>]_vars

\* Three targets have their beams: the first two left beam 3 the least
\* loaded and beam 4 next, and the third was given beams 3 and 4.
C16_Witness ==
    /\ pc = "beams" /\ bidx = 4
    /\ bdys_run[1].beams = <<2, 3>>
    /\ bdys_run[2].beams = <<2, 4>>
    /\ bdys_run[3].beams = <<3, 4>>
    /\ load[2] > load[3] - bdys_run[3].duration
    /\ load[3] > load[4]

\* The busy windows have been built.
BusyBuilt == pc \notin {"sort", "admit", "beams", "free", "busy"}

\* The busy windows that span the final interval of admitted target k.
WindowsOf(k) ==
    {j \in DOMAIN busyWindows :
        busyWindows[j][1] <= bdys_run[k].final[1] /\ bdys_run[k].final[2] <= busyWindows[j][2]}

\* The admitted targets whose final interval busy window j spans.
Members(j) == {k \in DOMAIN bdys_run : j \in WindowsOf(k)}

\* The time between the stop of admitted target k and the start of the next.
GapAfter(k) == bdys_run[k + 1].final[1] - bdys_run[k].final[2]

\* C17: the busy windows are the merge of the admitted intervals, in start
\* order, with a tolerance of 45 minutes: every admitted interval lies in
\* exactly one busy window; two consecutive admitted intervals lie in the same
\* busy window exactly when the gap between them is at most 45 minutes; a
\* busy window runs from the least start to the greatest stop of its
\* intervals; consecutive busy windows are more than 45 minutes apart.
C17_BusyWindowsMergeWithin45Minutes ==
    BusyBuilt
    => /\ \A k \in DOMAIN bdys_run : Cardinality(WindowsOf(k)) = 1
       /\ \A k \in 1..(Len(bdys_run) - 1) :
            /\ bdys_run[k].final[1] <= bdys_run[k + 1].final[1]
            /\ WindowsOf(k) = WindowsOf(k + 1) <=> GapAfter(k) <= Minutes(45)
       /\ \A j \in DOMAIN busyWindows :
            /\ Members(j) # {}
            /\ \E k \in Members(j) : busyWindows[j][1] = bdys_run[k].final[1]
            /\ \A k \in Members(j) : busyWindows[j][1] <= bdys_run[k].final[1]
            /\ \E k \in Members(j) : busyWindows[j][2] = bdys_run[k].final[2]
            /\ \A k \in Members(j) : busyWindows[j][2] >= bdys_run[k].final[2]
       /\ \A j \in 1..(Len(busyWindows) - 1) :
            busyWindows[j + 1][1] - busyWindows[j][2] > Minutes(45)

\* Three admitted targets in two busy windows: the first two are exactly 45
\* minutes apart and share a window, the third is further off.
C17_Witness ==
    /\ BusyBuilt
    /\ Len(bdys_run) = 3 /\ Len(busyWindows) = 2
    /\ GapAfter(1) = Minutes(45) /\ WindowsOf(1) = WindowsOf(2)
    /\ GapAfter(2) > Minutes(45) /\ WindowsOf(2) # WindowsOf(3)

\* The free windows have been built.
FreeBuilt == pc \notin {"sort", "admit", "beams", "free"}

\* C18: no free window holds an instant of the interval that runs from 20
\* minutes before the final start to 20 minutes after the final stop of an
\* admitted target; every free window has a length greater than zero; its two
\* ends are samples of the 2 minute grid that begins at the start of the
\* window of the run.
C18_FreeWindowsOffGuardsOnGrid ==
    FreeBuilt
    => \A i \in DOMAIN freeWindows :
          /\ \A k \in DOMAIN bdys_run :
                \/ freeWindows[i][2] < bdys_run[k].final[1] - Minutes(20)
                \/ freeWindows[i][1] > bdys_run[k].final[2] + Minutes(20)
          /\ freeWindows[i][2] - freeWindows[i][1] > 0
          /\ \A e \in {freeWindows[i][1], freeWindows[i][2]} :
                /\ start <= e /\ e < stop
                /\ (e - start) % Minutes(2) = 0

\* Two targets are admitted; one free window stops at the last sample before
\* the guard of a target, whose end is itself a sample, and another starts at
\* the first sample after the guard of a target.
C18_Witness ==
    /\ FreeBuilt
    /\ Len(bdys_run) >= 2 /\ Len(freeWindows) >= 2
    /\ \E i \in DOMAIN freeWindows, k \in DOMAIN bdys_run :
          freeWindows[i][2] + Minutes(2) = bdys_run[k].final[1] - Minutes(20)
    /\ \E i \in DOMAIN freeWindows, k \in DOMAIN bdys_run :
          freeWindows[i][1] - Minutes(2) = bdys_run[k].final[2] + Minutes(20)

\* The commands have been started: the INI commands are in the list.
IniPlaced == fidx >= 1

LongWindow(w) == w.f1 - w.f0 >= Minutes(45)

\* What the step s of a long window is to add: the health check if it is due
\* (more than 4 h after the last one), otherwise the DRSU selection and its
\* status post if due (more than 6 h), otherwise the DRSU scan if due (more
\* than 4 h) and the hour is at least 8, otherwise nothing.
CommandsDue(s) ==
    IF s.tTBW > s.tTBWLast + Hours(4)
    THEN <<Cmd(s.tTBW, "acquireHealthCheckAndProcess.py")>>
    ELSE IF s.tDRSU > s.tDRSULast + Hours(6)
    THEN <<Cmd(s.tDRSU, "selectBestDRSU.py"),
           Cmd(s.tDRSU + Minutes(2), "postDRSUStatus.py")>>
    ELSE IF s.tLWADB > s.tLWADBLast + Hours(4) /\ HourOf(s.tLWADB) >= 8
    THEN <<Cmd(s.tLWADB, "scanDRSUs.sh")>>
    ELSE <<>>

\* The maintenance kinds among the commands cmds.
Kinds(cmds) ==
    {IF cmds[n].cmd = "acquireHealthCheckAndProcess.py" THEN "A"
     ELSE IF cmds[n].cmd = "scanDRSUs.sh" THEN "C" ELSE "B" : n \in DOMAIN cmds}

\* The commands of the first n steps of steps, in order.
RECURSIVE CommandsOf(_, _)
CommandsOf(steps, n) ==
    IF n = 0 THEN <<>> ELSE CommandsOf(steps, n - 1) \o steps[n].cmds

\* The steps of the long window w begin at t0 and are 15 minutes apart, as
\* many as are at most f1 - 6 min; each adds the commands of at most one
\* kind, chosen in the order health check, DRSU selection, DRSU scan; and the
\* commands of the window are those of its steps, after the TBN command if
\* it has one.
SteppedFrom(w, t0) ==
    /\ \A n \in DOMAIN w.steps :
          /\ w.steps[n].tTBW = t0 + (n - 1) * Minutes(15)
          /\ w.steps[n].tTBW <= w.f1 - Minutes(6)
          /\ w.steps[n].cmds = CommandsDue(w.steps[n])
          /\ Cardinality(Kinds(w.steps[n].cmds)) <= 1
    /\ t0 + Len(w.steps) * Minutes(15) > w.f1 - Minutes(6)
    /\ \/ w.cmds = CommandsOf(w.steps, Len(w.steps))
       \/ w.cmds = <<Cmd(w.f0, "startTBN_split.sh")>> \o CommandsOf(w.steps, Len(w.steps))

\* C20 as stated: in a free window of at least 45 minutes the steps begin at
\* the start of the window plus 4 minutes and are 15 minutes apart while at
\* most the stop of the window minus 6 minutes; each step fires at most one
\* kind, in the order A, B, C (C from hour 8 on), and the pointer moves on by
\* 15 minutes whatever fired.
C20_StepsFromStartPlusFourMinutes ==
    \A k \in DOMAIN placed :
        LongWindow(placed[k]) => SteppedFrom(placed[k], placed[k].f0 + Minutes(4))

\* C20, amended: as stated, with the first step at the start of the window
\* plus 4 minutes floored to the whole minute.
C20_StepsFromFlooredStartPlusFourMinutes ==
    \A k \in DOMAIN placed :
        LongWindow(placed[k])
        => SteppedFrom(placed[k], FloorMinute(placed[k].f0 + Minutes(4)))

\* A long window that does not start on a whole minute was stepped through:
\* one step fired the health check, one the DRSU selection, and one nothing.
C20_Witness ==
    \E k \in DOMAIN placed :
        /\ LongWindow(placed[k])
        /\ placed[k].f0 % 60 # 0
        /\ \E n \in DOMAIN placed[k].steps : Kinds(placed[k].steps[n].cmds) = {"A"}
        /\ \E n \in DOMAIN placed[k].steps : Kinds(placed[k].steps[n].cmds) = {"B"}
        /\ \E n \in DOMAIN placed[k].steps : Kinds(placed[k].steps[n].cmds) = {}


(***************************************************************************)
(* Maintenance cooldowns over the whole run                                *)
(***************************************************************************)
\* The times of the commands named c, in the order they were built.
TimesOf(cmds, c) ==
    LET named == SelectSeq(cmds, LAMBDA x : x.cmd = c)
    IN  [k \in DOMAIN named |-> named[k].t]

\* Any two of the times ts, in order, are more than gap apart.
MoreThanApart(ts, gap) ==
    \A k, l \in DOMAIN ts : k < l => ts[l] - ts[k] > gap

\* The free window w was handled by the branch for its length without the
\* while loop and was given a command named c.
ShorterGave(w, c) ==
    w.f1 - w.f0 < Minutes(45) /\ \E k \in DOMAIN w.cmds : w.cmds[k].cmd = c

\* The while loop of the free window w gave a command named c.
LoopGave(w, c) ==
    \E s \in DOMAIN w.steps :
        \E k \in DOMAIN w.steps[s].cmds : w.steps[s].cmds[k].cmd = c

\* C21: any two health checks among the commands are more than 4 hours
\* apart and any two DRSU selections are more than 6 hours apart, whatever
\* free windows and branches they come from.
C21_CooldownsHoldAcrossTheRun ==
    /\ MoreThanApart(TimesOf(atCommands, "acquireHealthCheckAndProcess.py"),
                     Hours(4))
    /\ MoreThanApart(TimesOf(atCommands, "selectBestDRSU.py"), Hours(6))

\* A run where a window shorter than 45 minutes and the loop of a later one
\* both gave a health check, and likewise a DRSU selection, and one loop
\* gave two of each.
C21_Witness ==
    /\ pc = "log"
    /\ \E v, w \in DOMAIN placed :
        /\ v < w
        /\ ShorterGave(placed[v], "acquireHealthCheckAndProcess.py")
        /\ LoopGave(placed[w], "acquireHealthCheckAndProcess.py")
    /\ \E v, w \in DOMAIN placed :
        /\ v < w
        /\ ShorterGave(placed[v], "selectBestDRSU.py")
        /\ LoopGave(placed[w], "selectBestDRSU.py")
    /\ \E w \in DOMAIN placed :
        /\ Len(TimesOf(placed[w].cmds, "acquireHealthCheckAndProcess.py")) >= 2
        /\ Len(TimesOf(placed[w].cmds, "selectBestDRSU.py")) >= 2

\* The step s of a while loop gave a command named c.
StepGave(s, c) == \E k \in DOMAIN s.cmds : s.cmds[k].cmd = c

\* C22: a DRSU scan is only given a time whose hour is at least 8; the step
\* after a scan at t meets the scan's timestamp at t + 24 hours, and no other
\* scan is given a time before t + 28 hours.
C22_ScanAfterEightAndOncePer28Hours ==
    /\ \A k \in DOMAIN atCommands :
        atCommands[k].cmd = "scanDRSUs.sh" => HourOf(atCommands[k].t) >= 8
    /\ LET ts == TimesOf(atCommands, "scanDRSUs.sh")
       IN  \A k, l \in DOMAIN ts : k < l => ts[l] >= ts[k] + Hours(28)
    /\ \A w \in DOMAIN placed :
        \A s \in DOMAIN placed[w].steps :
            LET st == placed[w].steps
            IN  StepGave(st[s], "scanDRSUs.sh") /\ s < Len(st)
                    => st[s + 1].tLWADBLast = st[s].tLWADB + Hours(24)

\* A loop that passed a step before 8 o'clock where only the scan was due,
\* gave the scan at a later step, and 4 hours after it passed a step where
\* neither the health check nor the DRSU selection was due.
C22_Witness ==
    /\ pc = "log"
    /\ \E w \in DOMAIN placed :
        \E r, s, u \in DOMAIN placed[w].steps :
            LET st == placed[w].steps
            IN  /\ r < s /\ s < u
                /\ LWADBDue(st[r]) /\ ~TBWDue(st[r]) /\ ~DRSUDue(st[r])
                /\ HourOf(st[r].tLWADB) < 8 /\ st[r].cmds = <<>>
                /\ StepGave(st[s], "scanDRSUs.sh")
                /\ st[u].tLWADB > st[s].tLWADB + Hours(4)
                /\ ~TBWDue(st[u]) /\ ~DRSUDue(st[u]) /\ st[u].cmds = <<>>

(***************************************************************************)
(* Free windows shorter than 45 minutes                                    *)
(***************************************************************************)
\* The free window w is of at least lo and less than hi minutes.
LengthIn(w, lo, hi) ==
    w.f1 - w.f0 >= Minutes(lo) /\ w.f1 - w.f0 < Minutes(hi)

\* What the free window w met: the timestamps on entry and the three
\* pointers at t.
Met(w, t) ==
    Placement(t, t, t, w.tTBWLast, w.tDRSULast, w.tLWADBLast, <<>>)

\* The timestamps after the free window w: those the next window met, or
\* the current ones when w is the last one handled.
After(k) ==
    IF k < Len(placed)
    THEN [tTBWLast |-> placed[k + 1].tTBWLast,
          tDRSULast |-> placed[k + 1].tDRSULast,
          tLWADBLast |-> placed[k + 1].tLWADBLast]
    ELSE [tTBWLast |-> tTBWLast, tDRSULast |-> tDRSULast,
          tLWADBLast |-> tLWADBLast]

HealthCheck(t) == <<Cmd(t, "acquireHealthCheckAndProcess.py")>>

Selection(t) ==
    <<Cmd(t, "selectBestDRSU.py"), Cmd(t + Minutes(2), "postDRSUStatus.py")>>

\* C23: a free window of at least 15 and less than 45 minutes is given the
\* health check alone when it is due, else the DRSU selection with its status
\* post when that is due, else nothing; one of at least 6 and less than 15
\* minutes is given the DRSU selection with its status post when it is due,
\* else nothing; and only the timestamp of the kind that fired changes.
C23_OneKindInShorterWindows ==
    \A k \in DOMAIN placed :
        LET w == placed[k]
            t4 == FloorMinute(w.f0 + Minutes(4))
            t2 == FloorMinute(w.f0 + Minutes(2))
            a == LengthIn(w, 15, 45) /\ TBWDue(Met(w, t4))
            b == \/ LengthIn(w, 15, 45) /\ ~a /\ DRSUDue(Met(w, t4))
                 \/ LengthIn(w, 6, 15) /\ DRSUDue(Met(w, t2))
            t == IF LengthIn(w, 15, 45) THEN t4 ELSE t2
        IN  LengthIn(w, 6, 45) =>
                /\ w.cmds = IF a THEN HealthCheck(t)
                            ELSE IF b THEN Selection(t) ELSE <<>>
                /\ After(k).tTBWLast = IF a THEN t ELSE w.tTBWLast
                /\ After(k).tDRSULast =
                       IF b THEN t + Minutes(2) ELSE w.tDRSULast
                /\ After(k).tLWADBLast = w.tLWADBLast

\* A run with a window of 15 to 45 minutes where the health check and the
\* DRSU selection were both due, and a later one of that length where the
\* health check was not due and the DRSU selection was.
C23_Witness ==
    /\ pc = "log"
    /\ \E u, v \in DOMAIN placed :
        LET tu == FloorMinute(placed[u].f0 + Minutes(4))
            tv == FloorMinute(placed[v].f0 + Minutes(4))
        IN  /\ u < v
            /\ LengthIn(placed[u], 15, 45) /\ LengthIn(placed[v], 15, 45)
            /\ TBWDue(Met(placed[u], tu)) /\ DRSUDue(Met(placed[u], tu))
            /\ placed[u].cmds = HealthCheck(tu)
            /\ ~TBWDue(Met(placed[v], tv))
            /\ placed[v].cmds = Selection(tv)

(***************************************************************************)
(* Free windows shorter than 6 minutes, and the end of the placement       *)
(***************************************************************************)
\* The loop over the free windows has dealt with window k: it went on to
\* the next one, or the run ended in it.
Handled(k) == k < fidx \/ (k = fidx /\ pc = "exit")

\* The commands free window k was given.
GivenTo(k) == IF k <= Len(placed) THEN placed[k].cmds ELSE <<>>

\* t is after the finalized stop of every admitted target.
AfterAllStops(t) == \A i \in DOMAIN bdys_run : t > bdys_run[i].final[2]

\* C24: a free window shorter than 6 minutes is given exactly the
\* session-closing default-mode command at its start if it is the last free
\* window and starts after the stop of every admitted target, and nothing
\* otherwise.
C24_ClosingCommandIffLastAfterAllStops ==
    \A k \in DOMAIN freeWindows :
        LET f0 == freeWindows[k][1]
            f1 == freeWindows[k][2]
        IN  f1 - f0 < Minutes(6) /\ Handled(k) =>
                GivenTo(k) = IF k = Len(freeWindows) /\ AfterAllStops(f0)
                             THEN <<Cmd(f0, "startTBN_split.sh")>>
                             ELSE <<>>

(***************************************************************************)
(* The default-mode command of a long free window                          *)
(***************************************************************************)
\* C25: a free window of at least 45 minutes is given at most one
\* default-mode command; it is given one, first and at the window start,
\* when it is the first free window or starts at least 3 minutes after the
\* start of the scheduling window, and none otherwise.
C25_DefaultModeAtStartOfLongWindow ==
    \A k \in DOMAIN placed :
        LET w == placed[k]
            tbn == SelectSeq(w.cmds, LAMBDA x : x.cmd = "startTBN_split.sh")
        IN  LongWindow(w) =>
                IF k = 1 \/ w.f0 - start >= Minutes(3)
                THEN /\ tbn = <<Cmd(w.f0, "startTBN_split.sh")>>
                     /\ w.cmds[1] = tbn[1]
                ELSE tbn = <<>>

\* A run with two free windows of at least 45 minutes, the first at the
\* start of the scheduling window, which is not on a whole minute.
C25_Witness ==
    /\ pc = "log"
    /\ \E k \in DOMAIN placed :
        /\ k > 1
        /\ LongWindow(placed[1]) /\ LongWindow(placed[k])
        /\ placed[1].f0 = start /\ start % 60 # 0
        /\ Len(placed[k].cmds) > 1

\* C26: once the placement of the maintenance commands has begun it does not
\* end in an error: a run that has left the loop over the free windows has
\* dealt with every free window and has its command list.
C26_PlacementCompletesWithoutError ==
    fidx >= 1 /\ pc \in {"log", "exit"} =>
        /\ exit_status # 1
        /\ fidx = Len(freeWindows) + 1
        /\ Len(placed) = Len(freeWindows)

(***************************************************************************)
(* Where the commands fall                                                 *)
(***************************************************************************)
\* C28: every command a free window [f0, f1] is given has its time in
\* [f0, f1].
C28_CommandsInsideTheirFreeWindow ==
    \A k \in DOMAIN placed :
        \A c \in DOMAIN placed[k].cmds :
            /\ placed[k].f0 <= placed[k].cmds[c].t
            /\ placed[k].cmds[c].t <= placed[k].f1

\* C27: no command built has its time inside the finalized interval
\* [start, stop] of an admitted target.
C27_NoCommandInsideAnAdmittedTarget ==
    \A c \in DOMAIN atCommands :
        \A i \in DOMAIN bdys_run :
            \/ atCommands[c].t < bdys_run[i].final[1]
            \/ atCommands[c].t > bdys_run[i].final[2]

\* A run whose commands are complete, with an initialization before a
\* target, and a free window that ends before a target and was given a
\* status post later than its own end.
C27_Witness ==
    /\ pc = "log"
    /\ \E c \in DOMAIN atCommands : atCommands[c].cmd = "INIdp.sh"
    /\ \E k \in DOMAIN placed :
        /\ \E i \in DOMAIN bdys_run : placed[k].f1 < bdys_run[i].final[1]
        /\ \E c \in DOMAIN placed[k].cmds :
            /\ placed[k].cmds[c].cmd = "postDRSUStatus.py"
            /\ placed[k].cmds[c].t > placed[k].f1

(***************************************************************************)
(* Dry run                                                                 *)
(***************************************************************************)
\* Nothing was made, written, submitted or handed over.
NoExternalEffect ==
    /\ sdf_dir_made = FALSE
    /\ filenames = <<>>
    /\ success = "not_called"
    /\ state_file = <<>>
    /\ catalog_file = <<>>
    /\ at_jobs = <<>>
    /\ log_file = <<>>

\* The run has built its commands.
CommandsBuilt == pc = "log" \/ (pc = "exit" /\ exit_status = 0)

\* C29: a dry run makes no SDF directory or file, calls no submission,
\* writes neither the session id nor the catalog, hands no command over and
\* appends no log; and a normal run on the same inputs after it computes the
\* admitted targets, their beams, the free and busy windows and the commands
\* the dry run computed.
C29_DryRunPlansAsNormalRunWithoutEffect ==
    /\ dry_run => NoExternalEffect
    /\ ~dry_run /\ dry_plan # <<>> =>
        /\ FreeBuilt => /\ Plan.run = dry_plan[1].run
                        /\ Plan.freeWindows = dry_plan[1].freeWindows
        /\ BusyBuilt => Plan.busyWindows = dry_plan[1].busyWindows
        /\ CommandsBuilt => Plan.atCommands = dry_plan[1].atCommands

\* A normal run that has written its files, submitted them and handed its
\* commands over, after a dry run that admitted two targets and built
\* commands for several free windows.
C29_Witness ==
    /\ pc = "exit" /\ exit_status = 0 /\ ~dry_run
    /\ dry_plan # <<>>
    /\ Len(dry_plan[1].run) >= 2
    /\ Len(dry_plan[1].freeWindows) >= 2
    /\ Len(dry_plan[1].atCommands) >= 4
    /\ filenames # <<>> /\ success = "ok"
    /\ state_file # <<>> /\ catalog_file # <<>>
    /\ at_jobs = atCommands /\ log_file # <<>>
=============================================================================
